---- MODULE Spec2Model ----
(***************************************************************************)
(* Urdu story generator: the BPE tokenizer (backend/bpe_tokenizer.py), the *)
(* trigram language model (backend/trigram_language_model.py) and the      *)
(* streaming generation controller generate_tokens (backend/main.py).      *)
(*                                                                         *)
(* Text is a sequence of characters, each character a one-element string.  *)
(* The multi-character literals of the source that the code only ever      *)
(* handles as units are single characters here: the end-of-word marker     *)
(* "</w>", the names "<PAD>" and "<UNK>", the legacy aliases "<EOS>",       *)
(* "<EOP>", "<EOT>" and the three private-use characters U+E000..U+E002.   *)
(* This assumes the corpus alphabet has no '<', '/', '>' of its own.       *)
(* A Python dict or Counter whose iteration order the code observes is a   *)
(* sequence of records [k, v] in insertion order.                          *)
(***************************************************************************)
EXTENDS Integers, Sequences, FiniteSets, TLC

VARIABLES
    tokenizer,   \* the BPETokenizer object: vocab_size, vocab, merges
    model,       \* the TrigramLanguageModel object: the count tables and totals
    corpus,      \* the texts the tokenizer was trained on, one per call of train
    frames,      \* one generate_tokens generator frame per request
    ret          \* the last direct call and what it returned

vars == <<tokenizer, model, corpus, frames, ret>>

----------------------------------------------------------------------------
(* Python built-ins on strings, dicts and Counters.                        *)

SPACE == " "
NEWLINE == "\n"
EOW == "</w>"
EOS_CHAR == "U+E000"
EOP_CHAR == "U+E001"
EOT_CHAR == "U+E002"
PAD_NAME == "<PAD>"
UNK_NAME == "<UNK>"

IsSpace(c) == c \in {SPACE, NEWLINE}

\* The value of a one-element set. {F(x) : x \in {e}} computes e once and
\* hands F its value: the steps of a computation are chained this way.
The(S) == CHOOSE x \in S : TRUE

Max(a, b) == IF a >= b THEN a ELSE b
Min(a, b) == IF a <= b THEN a ELSE b

\* s[i..] for a 1-based i
Drop(s, n) == SubSeq(s, n + 1, Len(s))
Take(s, n) == SubSeq(s, 1, n)

StartsWith(s, p) == Len(p) <= Len(s) /\ Take(s, Len(p)) = p

\* str.replace(old, new): leftmost, non-overlapping occurrences, old non-empty
RECURSIVE Replace(_, _, _)
Replace(s, old, new) ==
    IF s = <<>> THEN <<>>
    ELSE IF StartsWith(s, old) THEN new \o Replace(Drop(s, Len(old)), old, new)
    ELSE <<Head(s)>> \o Replace(Tail(s), old, new)

\* str.split(): the maximal runs of non-whitespace characters
RECURSIVE SplitFrom(_, _)
SplitFrom(s, cur) ==
    IF s = <<>> THEN (IF cur = <<>> THEN <<>> ELSE <<cur>>)
    ELSE IF IsSpace(Head(s))
         THEN (IF cur = <<>> THEN <<>> ELSE <<cur>>) \o SplitFrom(Tail(s), <<>>)
         ELSE SplitFrom(Tail(s), Append(cur, Head(s)))

Split(s) == SplitFrom(s, <<>>)

\* sep.join(parts)
RECURSIVE Join(_, _)
Join(sep, parts) ==
    IF parts = <<>> THEN <<>>
    ELSE IF Len(parts) = 1 THEN parts[1]
    ELSE parts[1] \o sep \o Join(sep, Tail(parts))

\* "".join(parts)
Concat(parts) == Join(<<>>, parts)

\* list(word): the characters of a word, each a string of its own
Chars(w) == [i \in 1..Len(w) |-> <<w[i]>>]

\* str.strip()
RECURSIVE LStrip(_)
LStrip(s) == IF s # <<>> /\ IsSpace(Head(s)) THEN LStrip(Tail(s)) ELSE s

RECURSIVE RStrip(_)
RStrip(s) ==
    IF s # <<>> /\ IsSpace(s[Len(s)]) THEN RStrip(Take(s, Len(s) - 1)) ELSE s

Strip(s) == RStrip(LStrip(s))

\* dict: key in d, d[k], d.get(k, default), d[k] = v, Counter's d[k] += n
Keys(d) == {d[i].k : i \in 1..Len(d)}
HasKey(d, key) == \E i \in 1..Len(d) : d[i].k = key
IndexOf(d, key) == CHOOSE i \in 1..Len(d) : d[i].k = key
Get(d, key, default) == IF HasKey(d, key) THEN d[IndexOf(d, key)].v ELSE default
Put(d, key, val) ==
    IF HasKey(d, key)
    THEN [d EXCEPT ![IndexOf(d, key)] = [k |-> key, v |-> val]]
    ELSE Append(d, [k |-> key, v |-> val])
CounterAdd(d, key, n) == Put(d, key, Get(d, key, 0) + n)

\* Counter(items)
RECURSIVE CounterOf(_)
CounterOf(items) ==
    IF items = <<>> THEN <<>>
    ELSE CounterAdd(CounterOf(Take(items, Len(items) - 1)), items[Len(items)], 1)

\* max(d, key=d.get): the first key, in insertion order, with the largest value
ArgMax(d) ==
    d[CHOOSE i \in 1..Len(d) :
        /\ \A j \in 1..Len(d) : d[j].v <= d[i].v
        /\ \A j \in 1..(i - 1) : d[j].v < d[i].v].k

\* Counter.most_common(): sorted by count, descending, stable on ties
RECURSIVE MostCommonAll(_)
MostCommonAll(d) ==
    IF d = <<>> THEN <<>>
    ELSE The({ <<d[best]>> \o MostCommonAll(rest) :
                 best \in {IndexOf(d, ArgMax(d))},
                 rest \in {Take(d, IndexOf(d, ArgMax(d)) - 1)
                              \o Drop(d, IndexOf(d, ArgMax(d)))} })

\* Counter.most_common(n)
MostCommon(d, n) == Take(MostCommonAll(d), Min(Max(n, 0), Len(d)))

----------------------------------------------------------------------------
(* backend/bpe_tokenizer.py                                                *)

special_tokens ==
    << [k |-> <<PAD_NAME>>, v |-> 0],
       [k |-> <<UNK_NAME>>, v |-> 1],
       [k |-> <<EOS_CHAR>>, v |-> 2],
       [k |-> <<EOP_CHAR>>, v |-> 3],
       [k |-> <<EOT_CHAR>>, v |-> 4] >>

legacy_special_aliases ==
    << [k |-> <<"<EOS>">>, v |-> <<EOS_CHAR>>],
       [k |-> <<"<EOP>">>, v |-> <<EOP_CHAR>>],
       [k |-> <<"<EOT>">>, v |-> <<EOT_CHAR>>] >>

\* BPETokenizer(vocab_size)
NewTokenizer(vocab_size) ==
    [vocab_size |-> vocab_size, vocab |-> <<>>, merges |-> <<>>]

\* for k in keys: counter[k] += n
RECURSIVE AddAll(_, _, _)
AddAll(counter, keys, n) ==
    IF keys = <<>> THEN counter
    ELSE AddAll(CounterAdd(counter, Head(keys), n), Tail(keys), n)

AdjacentPairs(syms) == [i \in 1..(Len(syms) - 1) |-> <<syms[i], syms[i + 1]>>]

RECURSIVE get_pair_stats_from(_, _)
get_pair_stats_from(words, pairs) ==
    IF words = <<>> THEN pairs
    ELSE get_pair_stats_from(
             Tail(words),
             AddAll(pairs, AdjacentPairs(Split(Head(words).k)), Head(words).v))

get_pair_stats(words) == get_pair_stats_from(words, <<>>)

RECURSIVE merge_vocab_from(_, _, _, _)
merge_vocab_from(bigram, repl, words, out) ==
    IF words = <<>> THEN out
    ELSE merge_vocab_from(
             bigram, repl, Tail(words),
             Put(out, Replace(Head(words).k, bigram, repl), Head(words).v))

merge_vocab(pair, words) ==
    merge_vocab_from(pair[1] \o <<SPACE>> \o pair[2], pair[1] \o pair[2],
                     words, <<>>)

\* " ".join(list(w)) + " </w>"
SymbolString(w) == Join(<<SPACE>>, Chars(w)) \o <<SPACE, EOW>>

\* vocab_words after line 46: word -> "c h a r s </w>", with its frequency
InitialVocabWords(text) ==
    LET word_freqs == CounterOf(Split(text))
    IN  [i \in 1..Len(word_freqs) |->
            [k |-> SymbolString(word_freqs[i].k), v |-> word_freqs[i].v]]

\* the symbols of every word, in order, each weighted by the word
RECURSIVE SymbolFreq(_, _)
SymbolFreq(words, acc) ==
    IF words = <<>> THEN acc
    ELSE SymbolFreq(Tail(words),
                    AddAll(acc, Split(Head(words).k), Head(words).v))

MERGE_ROOM == 50

\* lines 53-64: the words and base symbols left after pruning
PruneNeeded(symbols, available) == Cardinality(symbols) >= available

Pruned(vocab_words, vocab_size) ==
    LET symbols   == Keys(SymbolFreq(vocab_words, <<>>))
        available == vocab_size - Len(special_tokens)
    IN  IF PruneNeeded(symbols, available)
        THEN LET sym_freq == SymbolFreq(vocab_words, <<>>)
                 base_vocab_size ==
                     Min(Cardinality(symbols), Max(1, available - MERGE_ROOM))
                 kept == Keys(MostCommon(sym_freq, base_vocab_size))
             IN  [vocab_words |->
                      SelectSeq(vocab_words,
                                LAMBDA w : \A i \in 1..Len(Split(w.k)) :
                                               Split(w.k)[i] \in kept),
                  symbols |-> kept]
        ELSE [vocab_words |-> vocab_words, symbols |-> symbols]

\* lines 70-76: at most n merges, stopping when no pair is left
RECURSIVE MergeLoop(_, _, _)
MergeLoop(n, vocab_words, merges) ==
    IF n <= 0 THEN [vocab_words |-> vocab_words, merges |-> merges]
    ELSE LET pairs == get_pair_stats(vocab_words)
         IN  IF pairs = <<>>
             THEN [vocab_words |-> vocab_words, merges |-> merges]
             ELSE LET best == ArgMax(pairs)
                  IN  MergeLoop(n - 1, merge_vocab(best, vocab_words),
                                Append(merges, best))

\* lines 84-94: the specials, then tokens by descending frequency
RECURSIVE FillVocab(_, _, _, _, _)
FillVocab(toks, vocab, next_id, slots, vocab_size) ==
    IF toks = <<>> THEN vocab
    ELSE LET tok == Head(toks).k
             add == ~HasKey(vocab, tok) /\ slots > 0
             v2  == IF add THEN Put(vocab, tok, next_id) ELSE vocab
         IN  IF Len(v2) >= vocab_size THEN v2
             ELSE FillVocab(Tail(toks), v2,
                            IF add THEN next_id + 1 ELSE next_id,
                            IF add THEN slots - 1 ELSE slots, vocab_size)

\* train with line 84 building the vocabulary from the tokens alone
tokenizer_train_bare(self, text) ==
    LET p          == Pruned(InitialVocabWords(text), self.vocab_size)
        available  == self.vocab_size - Len(special_tokens)
        raw_merges == available - Cardinality(p.symbols)
        num_merges == IF raw_merges <= 0 THEN 1 ELSE raw_merges
        m          == MergeLoop(num_merges, p.vocab_words, self.merges)
        token_freq == SymbolFreq(m.vocab_words, <<>>)
    IN  [vocab_size |-> self.vocab_size,
         vocab  |-> FillVocab(MostCommonAll(token_freq), <<>>, 0,
                              self.vocab_size - Len(special_tokens),
                              self.vocab_size),
         merges |-> m.merges]

\* BPETokenizer.train: the tokenizer after training on the text of the corpus.
\* self.merges is appended to, never cleared (line 76).
tokenizer_train(self, text) ==
    LET p          == Pruned(InitialVocabWords(text), self.vocab_size)
        available  == self.vocab_size - Len(special_tokens)
        raw_merges == available - Cardinality(p.symbols)
        num_merges == IF raw_merges <= 0 THEN 1 ELSE raw_merges
        m          == MergeLoop(num_merges, p.vocab_words, self.merges)
        token_freq == SymbolFreq(m.vocab_words, <<>>)
    IN  [vocab_size |-> self.vocab_size,
         vocab  |-> FillVocab(MostCommonAll(token_freq), special_tokens,
                              Len(special_tokens),
                              self.vocab_size - Len(special_tokens),
                              self.vocab_size),
         merges |-> m.merges]

\* _separate_specials
RECURSIVE ReplaceEach(_, _)
ReplaceEach(text, pairs) ==
    IF pairs = <<>> THEN text
    ELSE The({ReplaceEach(t, Tail(pairs)) :
                 t \in {Replace(text, Head(pairs).k, Head(pairs).v)}})

separate_specials(text) ==
    ReplaceEach(
        The({t : t \in {ReplaceEach(text, legacy_special_aliases)}}),
        << [k |-> <<EOS_CHAR>>, v |-> <<SPACE, EOS_CHAR, SPACE>>],
           [k |-> <<EOP_CHAR>>, v |-> <<SPACE, EOP_CHAR, SPACE>>],
           [k |-> <<EOT_CHAR>>, v |-> <<SPACE, EOT_CHAR, SPACE>>] >>)

\* encode_word: every merge, in table order, as a replacement in the string
RECURSIVE ApplyMerges(_, _)
ApplyMerges(w, merges) ==
    IF merges = <<>> THEN w
    ELSE The({ApplyMerges(w2, Tail(merges)) :
                 w2 \in {Replace(w, Head(merges)[1] \o <<SPACE>> \o Head(merges)[2],
                                 Head(merges)[1] \o Head(merges)[2])}})

encode_word(self, word) ==
    The({Split(w) : w \in {ApplyMerges(w0, self.merges) :
                               w0 \in {SymbolString(word)}}})

UNK_ID == Get(special_tokens, <<UNK_NAME>>, 1)

RECURSIVE EncodeUnits(_, _)
EncodeUnits(self, units) ==
    IF units = <<>> THEN <<>>
    ELSE The({ (IF HasKey(special_tokens, w)
                THEN <<Get(special_tokens, w, 0)>>
                ELSE The({[i \in 1..Len(toks) |-> Get(self.vocab, toks[i], UNK_ID)] :
                            toks \in {encode_word(self, w)}}))
               \o EncodeUnits(self, rest) :
               w \in {Get(legacy_special_aliases, Head(units), Head(units))},
               rest \in {Tail(units)} })

encode(self, text) ==
    The({EncodeUnits(self, units) :
            units \in {Split(t) : t \in {separate_specials(text)}}})

\* the rendering of the end-of-sentence character in decode, line 128
EOS_TEXT == <<"U+00DB", "U+201D", SPACE>>

\* {v: k for k, v in vocab.items()}.get(i, ""): the last token holding id i
IdToToken(vocab, i) ==
    IF \E j \in 1..Len(vocab) : vocab[j].v = i
    THEN vocab[CHOOSE j \in 1..Len(vocab) :
                   /\ vocab[j].v = i
                   /\ \A l \in (j + 1)..Len(vocab) : vocab[l].v # i].k
    ELSE <<>>

decode(self, token_ids) ==
    LET toks == [i \in 1..Len(token_ids) |-> IdToToken(self.vocab, token_ids[i])]
        t0 == {Concat(toks)}
        t1 == {Replace(t, <<EOW>>, <<SPACE>>) : t \in t0}
        t2 == {Replace(t, <<EOS_CHAR>>, EOS_TEXT) : t \in t1}
        t3 == {Replace(t, <<EOP_CHAR>>, <<NEWLINE, NEWLINE>>) : t \in t2}
        t4 == {Replace(t, <<EOT_CHAR>>, <<>>) : t \in t3}
    IN  The({Join(<<SPACE>>, parts) : parts \in {Split(t) : t \in t4}})

----------------------------------------------------------------------------
(* backend/trigram_language_model.py                                       *)
(* The bigram and trigram tables and the totals are functions: the code    *)
(* observes their keys and values, never their order. unigram_counts keeps *)
(* its insertion order, which most_common breaks ties by. A probability is *)
(* an exact fraction [num, den]; the source computes it in floating point. *)

pad_id == 0
unk_id == 1
eos_id == 2
eop_id == 3
eot_id == 4

\* the weights 0.1, 0.3, 0.6 of line 19, in tenths
lambda1 == 1
lambda2 == 3
lambda3 == 6
LAMBDA_DEN == 10

TOP_UNIGRAMS == 50

FnGet(f, key, default) == IF key \in DOMAIN f THEN f[key] ELSE default
FnPut(f, key, val) ==
    [x \in DOMAIN f \cup {key} |-> IF x = key THEN val ELSE f[x]]
\* defaultdict.__getitem__: a missing key is inserted with the default
Touch(f, key, default) == IF key \in DOMAIN f THEN f ELSE FnPut(f, key, default)

\* TrigramLanguageModel(): lines 11-17
NewModel ==
    [unigram_counts |-> <<>>, bigram_counts |-> <<>>, trigram_counts |-> <<>>,
     total_unigrams |-> 0, total_bigrams |-> <<>>, total_trigrams |-> <<>>]

\* lines 43-45
RECURSIVE CountUnigrams(_, _)
CountUnigrams(token_ids, self) ==
    IF token_ids = <<>> THEN self
    ELSE CountUnigrams(
             Tail(token_ids),
             [self EXCEPT !.unigram_counts = CounterAdd(@, Head(token_ids), 1),
                          !.total_unigrams = @ + 1])

\* dd[key][w] += 1 on a defaultdict(Counter)
Bump(dd, key, w) ==
    FnPut(dd, key, FnPut(FnGet(dd, key, <<>>), w, FnGet(FnGet(dd, key, <<>>), w, 0) + 1))

\* lines 47-50
RECURSIVE CountBigrams(_, _, _)
CountBigrams(token_ids, i, self) ==
    IF i > Len(token_ids) - 1 THEN self
    ELSE CountBigrams(
             token_ids, i + 1,
             [self EXCEPT
                 !.bigram_counts = Bump(@, token_ids[i], token_ids[i + 1]),
                 !.total_bigrams = FnPut(@, token_ids[i], FnGet(@, token_ids[i], 0) + 1)])

\* lines 52-56
RECURSIVE CountTrigrams(_, _, _)
CountTrigrams(token_ids, i, self) ==
    IF i > Len(token_ids) - 2 THEN self
    ELSE LET ctx == <<token_ids[i], token_ids[i + 1]>>
         IN  CountTrigrams(
                 token_ids, i + 1,
                 [self EXCEPT
                     !.trigram_counts = Bump(@, ctx, token_ids[i + 2]),
                     !.total_trigrams = FnPut(@, ctx, FnGet(@, ctx, 0) + 1)])

\* train without the reset of lines 36-41: counted onto the tables as they are
model_train_onto(self, token_ids) ==
    CountTrigrams(token_ids, 1,
        CountBigrams(token_ids, 1,
            CountUnigrams(token_ids, self)))

\* TrigramLanguageModel.train: every table is reset, then counted
model_train(self, token_ids) ==
    CountTrigrams(token_ids, 1,
        CountBigrams(token_ids, 1,
            CountUnigrams(token_ids, NewModel)))

\* _p1, _p2, _p3: the model after the call (a read of a defaultdict inserts
\* the missing key) and the fraction returned
Frac(n, d) == [num |-> n, den |-> d]

\* _p1 dividing by the number of distinct ids instead of total_unigrams
p1_distinct(self, w) ==
    [self |-> self,
     p |-> IF self.total_unigrams = 0 THEN Frac(0, 1)
           ELSE Frac(Get(self.unigram_counts, w, 0), Len(self.unigram_counts))]

p1(self, w) ==
    [self |-> self,
     p |-> IF self.total_unigrams = 0 THEN Frac(0, 1)
           ELSE Frac(Get(self.unigram_counts, w, 0), self.total_unigrams)]

p2(self, w1, w2) ==
    LET s1    == [self EXCEPT !.total_bigrams = Touch(@, w1, 0)]
        denom == s1.total_bigrams[w1]
        s2    == [s1 EXCEPT !.bigram_counts = Touch(@, w1, <<>>)]
    IN  IF denom = 0 THEN [self |-> s1, p |-> Frac(0, 1)]
        ELSE [self |-> s2, p |-> Frac(FnGet(s2.bigram_counts[w1], w2, 0), denom)]

p3(self, w1, w2, w3) ==
    LET ctx   == <<w1, w2>>
        s1    == [self EXCEPT !.total_trigrams = Touch(@, ctx, 0)]
        denom == s1.total_trigrams[ctx]
        s2    == [s1 EXCEPT !.trigram_counts = Touch(@, ctx, <<>>)]
    IN  IF denom = 0 THEN [self |-> s1, p |-> Frac(0, 1)]
        ELSE [self |-> s2, p |-> Frac(FnGet(s2.trigram_counts[ctx], w3, 0), denom)]

get_interpolated_prob(self, w1, w2, w3) ==
    The({ The({ The({
        [self |-> c.self,
         p |-> Frac(lambda1 * a.p.num * b.p.den * c.p.den
                      + lambda2 * b.p.num * a.p.den * c.p.den
                      + lambda3 * c.p.num * a.p.den * b.p.den,
                    LAMBDA_DEN * a.p.den * b.p.den * c.p.den)] :
        c \in {p3(b.self, w1, w2, w3)} }) :
        b \in {p2(a.self, w2, w3)} }) :
        a \in {p1(self, w3)} })

\* lines 77-84: the followers of the context, of its last id, and the most
\* frequent ids
Followers(self, context) ==
    (IF context \in DOMAIN self.trigram_counts
     THEN DOMAIN self.trigram_counts[context] ELSE {})
    \cup (IF context[2] \in DOMAIN self.bigram_counts
          THEN DOMAIN self.bigram_counts[context[2]] ELSE {})
    \cup The({Keys(top) : top \in {MostCommon(self.unigram_counts, TOP_UNIGRAMS)}})

\* the candidate set with line 87 left out
CandidatesKeepUnk(self, context) == Followers(self, context) \ {pad_id}

\* lines 77-87: the candidate set
Candidates(self, context) == Followers(self, context) \ {pad_id, unk_id}

\* line 93: the tables after a probability was computed for every candidate
RECURSIVE ProbEach(_, _, _)
ProbEach(self, context, tokens) ==
    IF tokens = {} THEN self
    ELSE The({ ProbEach(next, context, tokens \ {t}) :
                 t \in {CHOOSE x \in tokens : \A y \in tokens : x <= y},
                 next \in {get_interpolated_prob(
                              self, context[1], context[2],
                              CHOOSE x \in tokens : \A y \in tokens : x <= y).self} })

\* generate_next_token: the model after the call and every id that
\* np.random.choice can draw (a candidate of probability 0 is never drawn,
\* unless all are 0 and the draw is uniform)
generate_next_token(self, context) ==
    The({ IF candidates = {} THEN [self |-> self, ids |-> {eos_id}]
          ELSE The({ [self |-> ProbEach(self, context, candidates),
                      ids |-> IF positive = {} THEN candidates ELSE positive] :
                     positive \in
                       {{t \in candidates :
                           get_interpolated_prob(self, context[1], context[2], t).p.num > 0}} }) :
          candidates \in {Candidates(self, context)} })

----------------------------------------------------------------------------
(* backend/main.py: generate_tokens, an async generator. A frame holds the *)
(* generator's arguments and locals, the events it has yielded so far, and *)
(* two history fields: samples, every id the sampler returned to it, and   *)
(* drawable, whether each of them is an id generate_next_token can draw    *)
(* from the loaded tables. pc is the suspension point:                     *)
(*   "start"   generate_tokens was called, nothing has run yet             *)
(*   "prefix"  suspended after yielding the prefix (lines 156-160)         *)
(*   "loop"    suspended between two iterations of the loop of line 173    *)
(*   "error", "done"  suspended at the yield of the terminal event         *)
(*   "closed"  returned                                                    *)
(* One action runs one iteration of the loop; the code suspends at most    *)
(* that often, so every interleaving of the code is one of the model.      *)

ERROR_TEXT == <<"Model not loaded. Check backend logs.">>
SENTENCE_END == <<SPACE, "U+06D4">>
PARAGRAPH_BREAK == <<NEWLINE, NEWLINE>>

Event(kind, data) == [event |-> kind, data |-> data]
TokenEvent(text) == Event("token", text)
ErrorEvent == Event("error", ERROR_TEXT)
DoneEvent == Event("done", <<>>)

NewFrame ==
    [pc |-> "start", prefix |-> <<>>, max_length |-> 0, prefix_ids |-> <<>>,
     ctx |-> <<>>, generated_ids |-> <<>>, consecutive_special |-> 0,
     step |-> 0, events |-> <<>>, samples |-> <<>>, drawable |-> TRUE]

\* generate_tokens(prefix, max_length): the generator object, not yet run
CallFrame(prefix, max_length) ==
    [NewFrame EXCEPT !.prefix = prefix, !.max_length = max_length]

\* StartFrame without the return of line 145
StartFrameNoReturn(tok, lm, f) ==
    [f EXCEPT !.pc = "prefix",
              !.prefix_ids = encode(tok, f.prefix),
              !.events = (IF lm.total_unigrams = 0 THEN Append(@, ErrorEvent) ELSE @)
                         \o <<TokenEvent(f.prefix)>>]

\* lines 137-160: the first resumption
StartFrame(tok, lm, f) ==
    IF lm.total_unigrams = 0
    THEN [f EXCEPT !.pc = "error", !.events = Append(@, ErrorEvent)]
    ELSE [f EXCEPT !.pc = "prefix",
                   !.prefix_ids = encode(tok, f.prefix),
                   !.events = Append(@, TokenEvent(f.prefix))]

\* the initial context with the branch of lines 165-166 left out
InitialContextShort(prefix_ids) ==
    IF Len(prefix_ids) <= 1 THEN <<eos_id, eos_id>>
    ELSE SubSeq(prefix_ids, Len(prefix_ids) - 1, Len(prefix_ids))

\* lines 163-168
InitialContext(prefix_ids) ==
    IF Len(prefix_ids) = 0 THEN <<eos_id, eos_id>>
    ELSE IF Len(prefix_ids) = 1 THEN <<eos_id, prefix_ids[1]>>
    ELSE SubSeq(prefix_ids, Len(prefix_ids) - 1, Len(prefix_ids))

\* lines 163-171
SeedFrame(f) ==
    [f EXCEPT !.pc = "loop", !.ctx = InitialContext(f.prefix_ids),
              !.generated_ids = f.prefix_ids, !.consecutive_special = 0,
              !.step = 0]

\* (ctx[-2], ctx[-1])
ContextPair(f) == <<f.ctx[Len(f.ctx) - 1], f.ctx[Len(f.ctx)]>>

\* break, then line 238
Break(f) == [f EXCEPT !.pc = "done", !.events = Append(@, DoneEvent)]

STOP_AFTER == 3

\* SpecialStep with the test of lines 203 and 216 off by one (> for >=)
SpecialStepLate(f, fragment) ==
    LET g == [f EXCEPT !.consecutive_special = @ + 1]
    IN  IF g.consecutive_special > STOP_AFTER THEN Break(g)
        ELSE [g EXCEPT !.events = Append(@, TokenEvent(fragment)),
                       !.step = @ + 1]

\* lines 200-211 and 214-224: an end-of-sentence or end-of-paragraph id
SpecialStep(f, fragment) ==
    LET g == [f EXCEPT !.consecutive_special = @ + 1]
    IN  IF g.consecutive_special >= STOP_AFTER THEN Break(g)
        ELSE [g EXCEPT !.events = Append(@, TokenEvent(fragment)),
                       !.step = @ + 1]

\* lines 227-236: any other accepted id
\* TextStep without the reset of line 227
TextStepNoReset(tok, f, next_id) ==
    LET g == [f EXCEPT !.step = @ + 1]
    IN  The({ IF stripped # <<>>
              THEN [g EXCEPT !.events =
                       Append(@, TokenEvent(<<SPACE>> \o stripped))]
              ELSE g :
              stripped \in {Strip(token_text) :
                               token_text \in {decode(tok, <<next_id>>)}} })

TextStep(tok, f, next_id) ==
    LET g == [f EXCEPT !.consecutive_special = 0, !.step = @ + 1]
    IN  The({ IF stripped # <<>>
              THEN [g EXCEPT !.events =
                       Append(@, TokenEvent(<<SPACE>> \o stripped))]
              ELSE g :
              stripped \in {Strip(token_text) :
                               token_text \in {decode(tok, <<next_id>>)}} })

\* StepFrame with a PAD or UNK sample retried instead of counted as a step
StepFrameRetry(tok, f, next_id) ==
    IF next_id = eot_id THEN Break(f)
    ELSE IF next_id \in {pad_id, unk_id} THEN f
    ELSE LET g == [f EXCEPT !.generated_ids = Append(@, next_id),
                            !.ctx = Append(@, next_id)]
         IN  IF next_id = eos_id THEN SpecialStep(g, SENTENCE_END)
             ELSE IF next_id = eop_id THEN SpecialStep(g, PARAGRAPH_BREAK)
             ELSE TextStep(tok, g, next_id)

\* StepFrame with the end-of-text test moved after lines 193-194
StepFrameEotKept(tok, f, next_id) ==
    IF next_id \in {pad_id, unk_id} THEN [f EXCEPT !.step = @ + 1]
    ELSE LET g == [f EXCEPT !.generated_ids = Append(@, next_id),
                            !.ctx = Append(@, next_id)]
         IN  IF next_id = eot_id THEN Break(g)
             ELSE IF next_id = eos_id THEN SpecialStep(g, SENTENCE_END)
             ELSE IF next_id = eop_id THEN SpecialStep(g, PARAGRAPH_BREAK)
             ELSE TextStep(tok, g, next_id)

\* StepFrame with a PAD or UNK sample resetting consecutive_special
StepFrameSkipResets(tok, f, next_id) ==
    IF next_id = eot_id THEN Break(f)
    ELSE IF next_id \in {pad_id, unk_id}
    THEN [f EXCEPT !.step = @ + 1, !.consecutive_special = 0]
    ELSE LET g == [f EXCEPT !.generated_ids = Append(@, next_id),
                            !.ctx = Append(@, next_id)]
         IN  IF next_id = eos_id THEN SpecialStep(g, SENTENCE_END)
             ELSE IF next_id = eop_id THEN SpecialStep(g, PARAGRAPH_BREAK)
             ELSE TextStep(tok, g, next_id)

\* lines 185-236: one iteration of the loop, given the sampled id
StepFrame(tok, f, next_id) ==
    IF next_id = eot_id THEN Break(f)
    ELSE IF next_id \in {pad_id, unk_id} THEN [f EXCEPT !.step = @ + 1]
    ELSE LET g == [f EXCEPT !.generated_ids = Append(@, next_id),
                            !.ctx = Append(@, next_id)]
         IN  IF next_id = eos_id THEN SpecialStep(g, SENTENCE_END)
             ELSE IF next_id = eop_id THEN SpecialStep(g, PARAGRAPH_BREAK)
             ELSE TextStep(tok, g, next_id)

\* What the sampler can hand to the loop at line 175. The loop is written
\* for any id (it tests for PAD and UNK, which generate_next_token never
\* returns), so the controller is run against every id of the loaded
\* vocabulary; the frame's drawable field tells the runs whose ids
\* generate_next_token can draw.
SamplerIds(tok) == {tok.vocab[i].v : i \in 1..Len(tok.vocab)}

----------------------------------------------------------------------------
(* The serving process: tokenizer and model loaded at startup (load_models)*)
(* from artifacts that were trained offline, then generation requests.     *)

\* the largest max_length of a request, and of the requests of the
\* specifications that are checked for liveness and for interleaving
MaxLength == 4
MaxLengthLive == 2
MaxLengthConc == 1

\* the training text of the loaded tokenizer and its target size
ServingCorpus == <<"a", SPACE, "b">>
ServingVocabSize == 9
\* the text the loaded model was counted on
ServingText ==
    <<"a", SPACE, "b", "<EOS>", "a", "<EOP>", "b", "<EOT>">>

LoadedTokenizer == tokenizer_train(NewTokenizer(ServingVocabSize), ServingCorpus)
LoadedModel == model_train(NewModel, encode(LoadedTokenizer, ServingText))

Prefixes ==
    { <<>>, <<"a">>, <<"z">>, <<"b", SPACE, SPACE, "a">>, <<"<EOS>">> }
ConcPrefixes == { <<>>, <<"a">> }

NoCall == [op |-> "none", calls |-> 0]

Requests == DOMAIN frames

\* load_models: the model may be missing (lines 84-86), the tokenizer is
\* there; each request is a call generate_tokens(prefix, max_length)
ServingInit(requests, prefixes, longest) ==
    /\ tokenizer = LoadedTokenizer
    /\ model \in {NewModel, LoadedModel}
    /\ corpus = <<ServingCorpus>>
    /\ frames \in [requests ->
                      {CallFrame(prefix, max_length) :
                          prefix \in prefixes, max_length \in 0..longest}]
    /\ ret = NoCall

Start(r) ==
    /\ frames[r].pc = "start"
    /\ frames' = [frames EXCEPT ![r] = StartFrame(tokenizer, model, frames[r])]
    /\ UNCHANGED <<tokenizer, model, corpus, ret>>

Seed(r) ==
    /\ frames[r].pc = "prefix"
    /\ frames' = [frames EXCEPT ![r] = SeedFrame(frames[r])]
    /\ UNCHANGED <<tokenizer, model, corpus, ret>>

\* Step with consecutive_special kept in one place for all requests (a
\* module global, like tokenizer and model) instead of in the frame
StepSharedCounter(r) ==
    /\ frames[r].pc = "loop"
    /\ frames[r].step < frames[r].max_length
    /\ \E g \in {generate_next_token(model, ContextPair(frames[r]))} :
           /\ model' = g.self
           /\ \E next_id \in SamplerIds(tokenizer) :
                LET shared == CHOOSE q \in Requests : \A o \in Requests : q <= o
                    f == StepFrame(tokenizer,
                              [frames[r] EXCEPT
                                  !.samples = Append(@, next_id),
                                  !.drawable = @ /\ next_id \in g.ids,
                                  !.consecutive_special =
                                      frames[shared].consecutive_special],
                              next_id)
                IN  frames' = [q \in Requests |->
                                 IF q = r THEN f
                                 ELSE IF q = shared
                                 THEN [frames[q] EXCEPT !.consecutive_special =
                                           f.consecutive_special]
                                 ELSE frames[q]]
    /\ UNCHANGED <<tokenizer, corpus, ret>>

Step(r) ==
    /\ frames[r].pc = "loop"
    /\ frames[r].step < frames[r].max_length
    /\ \E g \in {generate_next_token(model, ContextPair(frames[r]))} :
           /\ model' = g.self
           /\ \E next_id \in SamplerIds(tokenizer) :
                frames' = [frames EXCEPT ![r] =
                    StepFrame(tokenizer,
                              [frames[r] EXCEPT
                                  !.samples = Append(@, next_id),
                                  !.drawable = @ /\ next_id \in g.ids],
                              next_id)]
    /\ UNCHANGED <<tokenizer, corpus, ret>>

\* the loop of line 173 is exhausted: line 238
Finish(r) ==
    /\ frames[r].pc = "loop"
    /\ frames[r].step >= frames[r].max_length
    /\ frames' = [frames EXCEPT ![r] = Break(frames[r])]
    /\ UNCHANGED <<tokenizer, model, corpus, ret>>

\* resumed after the terminal event: the generator returns
Close(r) ==
    /\ frames[r].pc \in {"error", "done"}
    /\ frames' = [frames EXCEPT ![r].pc = "closed"]
    /\ UNCHANGED <<tokenizer, model, corpus, ret>>

Init == ServingInit({1}, Prefixes, MaxLength)

Next ==
    \/ \E r \in Requests : Start(r)
    \/ \E r \in Requests : Seed(r)
    \/ \E r \in Requests : Step(r)
    \/ \E r \in Requests : Finish(r)
    \/ \E r \in Requests : Close(r)

Spec == Init /\ [][Next]_vars

\* A generator that was called is resumed for as long as it has not
\* returned: the event-stream response iterates it to the end.
Resume(r) == Start(r) \/ Seed(r) \/ Step(r) \/ Finish(r) \/ Close(r)

LiveInit == ServingInit({1}, Prefixes, MaxLengthLive)

LiveSpec == LiveInit /\ [][Next]_vars /\ WF_vars(Resume(1))

\* two requests served at once, interleaved at their suspension points
ConcInit == ServingInit({1, 2}, ConcPrefixes, MaxLengthConc)

ConcSpec == ConcInit /\ [][Next]_vars

----------------------------------------------------------------------------
(* The language model on its own: train, then probability and sampling     *)
(* calls on the tables it left, in any order. ret is the last call with    *)
(* its result and, for a query, the tables it was made on; ret.calls is    *)
(* the number of calls made on the object so far.                          *)

\* the ids of the training sequences and the queries: PAD, UNK and one
\* ordinary id
LMIds == {pad_id, unk_id, Len(special_tokens)}
MaxTrainLen == 3
\* the calls made on one model object
MaxCalls == 2

TrainInputs == UNION {[1..n -> LMIds] : n \in 0..MaxTrainLen}

LMInit ==
    /\ tokenizer = LoadedTokenizer
    /\ model = NewModel
    /\ corpus = <<>>
    /\ frames = <<>>
    /\ ret = NoCall

CallTrain(token_ids) ==
    /\ ret.calls < MaxCalls
    /\ model' = model_train(model, token_ids)
    /\ ret' = [op |-> "train", token_ids |-> token_ids,
               calls |-> ret.calls + 1]
    /\ UNCHANGED <<tokenizer, corpus, frames>>

CallGetInterpolatedProb(w1, w2, w3) ==
    /\ ret.calls < MaxCalls
    /\ \E g \in {get_interpolated_prob(model, w1, w2, w3)} :
           /\ model' = g.self
           /\ ret' = [op |-> "get_interpolated_prob", w1 |-> w1, w2 |-> w2,
                      w3 |-> w3, p |-> g.p, before |-> model,
                      calls |-> ret.calls + 1]
    /\ UNCHANGED <<tokenizer, corpus, frames>>

CallGenerateNextToken(w1, w2) ==
    /\ ret.calls < MaxCalls
    /\ \E g \in {generate_next_token(model, <<w1, w2>>)} :
           /\ model' = g.self
           /\ ret' = [op |-> "generate_next_token", context |-> <<w1, w2>>,
                      ids |-> g.ids, before |-> model,
                      calls |-> ret.calls + 1]
    /\ UNCHANGED <<tokenizer, corpus, frames>>

LMNext ==
    \/ \E token_ids \in TrainInputs : CallTrain(token_ids)
    \/ \E w1, w2, w3 \in LMIds : CallGetInterpolatedProb(w1, w2, w3)
    \/ \E w1, w2 \in LMIds : CallGenerateNextToken(w1, w2)

LMSpec == LMInit /\ [][LMNext]_vars

----------------------------------------------------------------------------
(* The tokenizer on its own: a tokenizer of some target size is trained,   *)
(* then words are encoded and the ids decoded. corpus is the texts it was  *)
(* trained on, ret the last call with its result.                          *)

VocabSizes == {3, 9, 10, 20}
Corpora ==
    { <<>>,
      <<"a", "b">>,
      <<"a", SPACE, "b">>,
      <<"b", SPACE, "c", SPACE, "a">>,
      <<"a", "b", SPACE, "a", "b", SPACE, "a", "b", SPACE, "c", "d">>,
      <<"a", "b", "c", SPACE, "a", "b", "c", SPACE, "b">> }
Alphabet == {"a", "b", "c"}
MaxWordLen == 2
\* the calls of train on one tokenizer object
MaxTrainings == 1

Words == UNION {[1..n -> Alphabet] : n \in 1..MaxWordLen}

BPEInit ==
    /\ tokenizer \in {NewTokenizer(vocab_size) : vocab_size \in VocabSizes}
    /\ model = NewModel
    /\ corpus = <<>>
    /\ frames = <<>>
    /\ ret = NoCall

CallTokenizerTrain(text) ==
    /\ Len(corpus) < MaxTrainings
    /\ tokenizer' = tokenizer_train(tokenizer, text)
    /\ corpus' = Append(corpus, text)
    /\ ret' = [op |-> "train", text |-> text, calls |-> 0]
    /\ UNCHANGED <<model, frames>>

CallEncode(word) ==
    /\ ret' = [op |-> "encode", text |-> word,
               ids |-> encode(tokenizer, word), calls |-> 0]
    /\ UNCHANGED <<tokenizer, model, corpus, frames>>

CallEncodeWord(word) ==
    /\ ret' = [op |-> "encode_word", word |-> word,
               symbols |-> encode_word(tokenizer, word), calls |-> 0]
    /\ UNCHANGED <<tokenizer, model, corpus, frames>>

\* decode of the ids the last encode returned
CallDecode ==
    /\ ret.op = "encode"
    /\ ret' = [op |-> "decode", text |-> ret.text, ids |-> ret.ids,
               out |-> decode(tokenizer, ret.ids), calls |-> 0]
    /\ UNCHANGED <<tokenizer, model, corpus, frames>>

BPENext ==
    \/ \E text \in Corpora : CallTokenizerTrain(text)
    \/ \E word \in Words : CallEncode(word)
    \/ \E word \in Words : CallEncodeWord(word)
    \/ CallDecode

BPESpec == BPEInit /\ [][BPENext]_vars

----------------------------------------------------------------------------
(* Properties of generate_tokens.                                          *)

Loaded == model.total_unigrams > 0

Last(s) == s[Len(s)]

LastThreeAre(samples, ids) ==
    /\ Len(samples) >= 3
    /\ \A i \in (Len(samples) - 2)..Len(samples) : samples[i] \in ids

TokenEvents(f) == SelectSeq(f.events, LAMBDA e : e.event = "token")
TerminalEvents(f) == SelectSeq(f.events, LAMBDA e : e.event \in {"error", "done"})

\* C1: the step that draws a third end-of-sentence id in a row ends the run:
\* it emits nothing for that id, only the done event, and once the last
\* three samples are end-of-sentence ids no sample is drawn and no event
\* emitted any more.
C1_ThirdEosStops ==
    [][\A r \in Requests :
         LET f == frames[r]
             g == frames'[r]
         IN  /\ (Len(g.samples) = Len(f.samples) + 1
                   /\ LastThreeAre(g.samples, {eos_id}))
                => /\ g.pc = "done"
                   /\ g.events = Append(f.events, DoneEvent)
             /\ LastThreeAre(f.samples, {eos_id})
                => /\ g.samples = f.samples
                   /\ g.events = f.events
                   /\ g.pc \in {"done", "closed"}]_vars

\* a run stopped by three end-of-sentence ids with steps to spare
C1_Witness ==
    \E r \in Requests :
        /\ LastThreeAre(frames[r].samples, {eos_id})
        /\ Len(frames[r].samples) < frames[r].max_length
        /\ frames[r].pc = "done"
        /\ Len(TokenEvents(frames[r])) = Len(frames[r].samples)

C2_Bounds(f) ==
    /\ Len(f.samples) <= f.max_length
    /\ Len(f.generated_ids) <= Len(f.prefix_ids) + f.max_length
    /\ Len(TokenEvents(f)) <= f.max_length + 1
    /\ f.events # <<>> => f.events[1] = TokenEvent(f.prefix)
    /\ (f.max_length = 0 /\ f.pc \in {"done", "closed"})
       => f.events = <<TokenEvent(f.prefix), DoneEvent>>

\* C2: with the model loaded, a run of generate_tokens draws at most
\* max_length samples, holds at most len(prefix_ids) + max_length ids, emits
\* at most max_length + 1 token fragments, the first of them the prefix as
\* given, emits exactly the prefix and done when max_length is 0, and always
\* reaches the done event.
C2_BoundedAndDone ==
    /\ [](Loaded => \A r \in Requests : C2_Bounds(frames[r]))
    /\ \A r \in {1} :
           (Loaded /\ frames[r].pc = "start")
           ~> (frames[r].pc = "closed" /\ Last(frames[r].events) = DoneEvent)

\* max_length samples were drawn, PAD or UNK among them, and the run is done
C2_Witness ==
    \E r \in Requests :
        /\ frames[r].pc = "closed"
        /\ frames[r].max_length > 0
        /\ Len(frames[r].samples) = frames[r].max_length
        /\ \E i \in 1..Len(frames[r].samples) :
               frames[r].samples[i] \in {pad_id, unk_id}
        /\ frames[r].prefix # decode(tokenizer, frames[r].prefix_ids)
        /\ Last(frames[r].events) = DoneEvent

C3_Stream(f) ==
    /\ Len(TerminalEvents(f)) <= 1
    /\ \A i \in 1..(Len(f.events) - 1) : f.events[i].event = "token"
    /\ f.pc \in {"error", "done", "closed"} <=> Len(TerminalEvents(f)) = 1
    /\ ~Loaded => /\ f.events \in {<<>>, <<ErrorEvent>>}
                  /\ f.samples = <<>>
                  /\ f.pc \in {"start", "error", "closed"}
    /\ Loaded => /\ \A i \in 1..Len(f.events) : f.events[i].event # "error"
                 /\ f.pc # "error"

\* C3: an event stream holds at most one terminal event, which is its last
\* event and is there exactly when the generator has stopped; without a
\* loaded model the stream is the error event alone and no sample is drawn,
\* with a loaded model it holds no error event and ends with done.
C3_OneTerminalEvent == \A r \in Requests : C3_Stream(frames[r])

\* the model is not loaded and the generator returned after the error event
C3_Witness ==
    \E r \in Requests :
        /\ ~Loaded
        /\ frames[r].pc = "closed"
        /\ frames[r].events = <<ErrorEvent>>

\* C4: serving leaves the Vocabulary, the Merge Table and every Count Table
\* as loaded: the same keys and the same values.
C4_TablesAsLoaded ==
    /\ tokenizer = LoadedTokenizer
    /\ model \in {NewModel, LoadedModel}

\* the locals and the events of a frame
View(f) ==
    [pc |-> f.pc, prefix_ids |-> f.prefix_ids, ctx |-> f.ctx,
     generated_ids |-> f.generated_ids,
     consecutive_special |-> f.consecutive_special, step |-> f.step,
     events |-> f.events]

\* one request run on its own over the given samples, as far as they go
RECURSIVE Replay(_, _, _)
Replay(tok, f, samples) ==
    IF samples = <<>> \/ f.pc # "loop" THEN f
    ELSE Replay(tok, StepFrame(tok, f, Head(samples)), Tail(samples))

\* the frame of a request with f's arguments and samples, had it run alone
\* to f's suspension point
Alone(tok, lm, f) ==
    LET f1 == StartFrame(tok, lm, CallFrame(f.prefix, f.max_length))
        f2 == Replay(tok, SeedFrame(f1), f.samples)
        f3 == IF f2.pc = "loop" THEN Break(f2) ELSE f2
    IN  CASE f.pc = "start"  -> CallFrame(f.prefix, f.max_length)
          [] f.pc \in {"prefix", "error"} -> f1
          [] f.pc = "loop"   -> f2
          [] f.pc = "done"   -> f3
          [] f.pc = "closed" ->
               [(IF f1.pc = "error" THEN f1 ELSE f3) EXCEPT !.pc = "closed"]

\* C5: with requests interleaved, a step of one request changes no other
\* request's frame, and every frame (context window, accumulated ids,
\* consecutive-special counter, events) is the one its request has when run
\* alone over the same sampled ids.
C5_Isolated ==
    /\ [](\A r \in Requests :
             View(frames[r]) = View(Alone(tokenizer, model, frames[r])))
    /\ [][\A r, q \in Requests :
             (r # q /\ frames'[r] # frames[r]) => frames'[q] = frames[q]]_vars

\* both requests have sampled, the second before the first was done, their
\* counters differ, and both streams are complete
C5_Witness ==
    /\ Requests = {1, 2}
    /\ \A r \in Requests : frames[r].pc = "closed" /\ Len(frames[r].samples) = 1
    /\ frames[1].consecutive_special = 1
    /\ frames[2].consecutive_special = 0
    /\ Len(frames[2].generated_ids) > Len(frames[2].prefix_ids)

\* a step of request r that drew a sample
Sampled(r) ==
    /\ frames[r].pc = "loop"
    /\ Len(frames'[r].samples) = Len(frames[r].samples) + 1

\* C13: a sampled end-of-text id stops the run at once: it is appended
\* neither to the context nor to the accumulated ids, the only event that
\* follows is done, and no sample is drawn afterwards.
C13_EotStops ==
    [][\A r \in Requests :
         LET f == frames[r]
             g == frames'[r]
         IN  /\ (Sampled(r) /\ Last(g.samples) = eot_id)
                => /\ g.pc = "done"
                   /\ g.ctx = f.ctx
                   /\ g.generated_ids = f.generated_ids
                   /\ g.events = Append(f.events, DoneEvent)
             /\ (f.samples # <<>> /\ Last(f.samples) = eot_id)
                => /\ g.samples = f.samples
                   /\ g.events = f.events
                   /\ g.ctx = f.ctx
                   /\ g.generated_ids = f.generated_ids
                   /\ g.pc \in {"done", "closed"}]_vars

\* end-of-text drawn after an accepted id, with steps to spare
C13_Witness ==
    \E r \in Requests :
        /\ frames[r].pc = "closed"
        /\ Len(frames[r].samples) >= 2
        /\ Len(frames[r].samples) < frames[r].max_length
        /\ Last(frames[r].samples) = eot_id
        /\ Len(frames[r].generated_ids) > Len(frames[r].prefix_ids)
        /\ Last(frames[r].events) = DoneEvent

LastTwo(s) == SubSeq(s, Len(s) - 1, Len(s))

\* C14: whenever a sample is about to be drawn, the context pair is the
\* last two of [EOS, EOS] followed by the accumulated ids, and an accepted
\* id slides it by one position.
C14_ContextWindow ==
    /\ [](\A r \in Requests :
             frames[r].pc = "loop" =>
                 ContextPair(frames[r])
                   = LastTwo(<<eos_id, eos_id>> \o frames[r].generated_ids))
    /\ [][\A r \in Requests :
             LET f == frames[r]
                 g == frames'[r]
             IN  (Sampled(r) /\ Len(g.generated_ids) = Len(f.generated_ids) + 1)
                 => ContextPair(g) = <<ContextPair(f)[2], Last(g.samples)>>]_vars

\* a one-id prefix, then a skipped and an accepted sample
C14_Witness ==
    \E r \in Requests :
        /\ frames[r].pc = "loop"
        /\ Len(frames[r].prefix_ids) = 1
        /\ Len(frames[r].samples) = 2
        /\ Len(frames[r].generated_ids) = 2
        /\ ContextPair(frames[r]) = frames[r].generated_ids

\* the sampled ids that were accepted: generated_ids after the prefix ids
Accepted(f) ==
    IF f.pc \in {"loop", "done", "closed"} /\ f.generated_ids # <<>>
    THEN SubSeq(f.generated_ids, Len(f.prefix_ids) + 1, Len(f.generated_ids))
    ELSE <<>>

\* the length of the run of ids of the set at the end of s
RECURSIVE TrailingRun(_, _)
TrailingRun(s, ids) ==
    IF s = <<>> \/ Last(s) \notin ids THEN 0
    ELSE 1 + TrailingRun(SubSeq(s, 1, Len(s) - 1), ids)

\* C15: consecutive_special is the number of end-of-sentence and
\* end-of-paragraph ids at the end of the accepted sampled ids (prefix ids
\* not counted); a step that accepts an id stops the run exactly when the
\* last three accepted ids are all of the two, and otherwise emits one
\* sentence-end fragment for EOS and one paragraph-break fragment for EOP.
C15_SharedCounter ==
    /\ [](\A r \in Requests :
             LET f == frames[r]
             IN  /\ f.consecutive_special
                      = TrailingRun(Accepted(f), {eos_id, eop_id})
                 /\ f.consecutive_special >= STOP_AFTER
                      => f.pc \in {"done", "closed"})
    /\ [][\A r \in Requests :
             LET f == frames[r]
                 g == frames'[r]
             IN  (Sampled(r) /\ Len(g.generated_ids) = Len(f.generated_ids) + 1)
                 => /\ g.pc = "done"
                         <=> LastThreeAre(Accepted(g), {eos_id, eop_id})
                    /\ g.pc = "done" => g.events = Append(f.events, DoneEvent)
                    /\ (g.pc # "done" /\ Last(g.samples) = eos_id)
                         => g.events = Append(f.events, TokenEvent(SENTENCE_END))
                    /\ (g.pc # "done" /\ Last(g.samples) = eop_id)
                         => g.events
                              = Append(f.events, TokenEvent(PARAGRAPH_BREAK))]_vars

\* a prefix that ends with an end-of-sentence id, then EOS and EOP sampled:
\* the counter is 2 and the run goes on
C15_Witness ==
    \E r \in Requests :
        /\ frames[r].pc = "loop"
        /\ frames[r].prefix_ids = <<eos_id>>
        /\ frames[r].samples = <<eos_id, eop_id>>
        /\ frames[r].consecutive_special = 2

\* C16: a PAD or UNK sample changes neither the context, nor the
\* accumulated ids, nor the counter, and emits nothing, but uses up one
\* step; the number of samples never exceeds max_length.
C16_SkipCostsAStep ==
    /\ [](\A r \in Requests :
             /\ Len(frames[r].samples) <= frames[r].max_length
             /\ frames[r].pc = "loop"
                  => frames[r].step = Len(frames[r].samples))
    /\ [][\A r \in Requests :
             LET f == frames[r]
                 g == frames'[r]
             IN  (Sampled(r) /\ Last(g.samples) \in {pad_id, unk_id})
                 => /\ g.ctx = f.ctx
                    /\ ContextPair(g) = ContextPair(f)
                    /\ g.generated_ids = f.generated_ids
                    /\ g.consecutive_special = f.consecutive_special
                    /\ g.events = f.events
                    /\ g.pc = "loop"
                    /\ g.step = f.step + 1]_vars

\* PAD drawn while the counter was 1, and the last step used up by UNK
C16_Witness ==
    \E r \in Requests :
        /\ frames[r].pc = "done"
        /\ frames[r].samples = <<eos_id, pad_id, unk_id>>
        /\ frames[r].max_length = 3
        /\ frames[r].consecutive_special = 1

\* a token event that carries a sentence-end or paragraph-break fragment
IsBreakFragment(ev) ==
    ev \in {TokenEvent(SENTENCE_END), TokenEvent(PARAGRAPH_BREAK)}

\* C18: no event stream of a run whose samples generate_next_token can draw
\* holds three sentence-end or paragraph-break fragments in a row.
C18_NoThreeBreaks ==
    \A r \in Requests :
        frames[r].drawable =>
            \A i \in 1..(Len(frames[r].events) - 2) :
                ~(/\ IsBreakFragment(frames[r].events[i])
                  /\ IsBreakFragment(frames[r].events[i + 1])
                  /\ IsBreakFragment(frames[r].events[i + 2]))

----------------------------------------------------------------------------
(* Properties of the language model.                                       *)

\* C6: generate_next_token returns neither PAD nor UNK, whatever the context
\* and the tables; it returns the end-of-sentence id when no follower other
\* than PAD and UNK is left, and one of those followers otherwise.
C6_NeverPadOrUnk ==
    ret.op = "generate_next_token" =>
        LET left == Followers(ret.before, ret.context) \ {pad_id, unk_id}
        IN  /\ ret.ids # {}
            /\ ret.ids \cap {pad_id, unk_id} = {}
            /\ IF left = {} THEN ret.ids = {eos_id} ELSE ret.ids \subseteq left

\* PAD and UNK both followed the context in training, with an ordinary id
C6_Witness ==
    /\ ret.op = "generate_next_token"
    /\ ret.context \in DOMAIN ret.before.trigram_counts
    /\ unk_id \in DOMAIN ret.before.trigram_counts[ret.context]
    /\ pad_id \in Keys(ret.before.unigram_counts)
    /\ ret.ids = {Len(special_tokens)}

\* a * d <= c * b, for fractions a/b and c/d of positive denominators
FracLeq(x, y) == x.num * y.den <= y.num * x.den

\* C10: the interpolated probability lies in [0, 1], is at least 0.6 times
\* the trigram relative frequency when the context was observed, and is
\* positive when w3 was counted; the weights sum to 1.
C10_Interpolated ==
    /\ lambda1 + lambda2 + lambda3 = LAMBDA_DEN
    /\ ret.op = "get_interpolated_prob" =>
        LET m     == ret.before
            ctx   == <<ret.w1, ret.w2>>
            total == FnGet(m.total_trigrams, ctx, 0)
            count == FnGet(FnGet(m.trigram_counts, ctx, <<>>), ret.w3, 0)
        IN  /\ ret.p.den > 0
            /\ FracLeq(Frac(0, 1), ret.p)
            /\ FracLeq(ret.p, Frac(1, 1))
            /\ total > 0 =>
                 FracLeq(Frac(lambda3 * count, LAMBDA_DEN * total), ret.p)
            /\ Get(m.unigram_counts, ret.w3, 0) > 0 => ret.p.num > 0

\* an observed trigram, of a probability strictly between 0.6 and 1
C10_Witness ==
    /\ ret.op = "get_interpolated_prob"
    /\ FnGet(FnGet(ret.before.trigram_counts, <<ret.w1, ret.w2>>, <<>>),
             ret.w3, 0) > 0
    /\ ret.p.num < ret.p.den
    /\ Len(ret.before.unigram_counts) > 1

\* the sum of the values of a table
RECURSIVE SumOver(_, _)
SumOver(f, keys) ==
    IF keys = {} THEN 0
    ELSE LET x == CHOOSE y \in keys : TRUE
         IN  f[x] + SumOver(f, keys \ {x})

SumFn(f) == SumOver(f, DOMAIN f)

\* every total is the sum of the counts below it, for the contexts the
\* tables hold and for those they do not
TotalsMatch(m) ==
    /\ m.total_unigrams =
           SumFn([i \in 1..Len(m.unigram_counts) |-> m.unigram_counts[i].v])
    /\ \A w \in LMIds \cup DOMAIN m.total_bigrams \cup DOMAIN m.bigram_counts :
           FnGet(m.total_bigrams, w, 0) = SumFn(FnGet(m.bigram_counts, w, <<>>))
    /\ \A ctx \in (LMIds \X LMIds) \cup DOMAIN m.total_trigrams
                    \cup DOMAIN m.trigram_counts :
           FnGet(m.total_trigrams, ctx, 0)
             = SumFn(FnGet(m.trigram_counts, ctx, <<>>))

\* C11: after any calls of train and any probability and sampling calls,
\* every total equals the sum of its child counts; right after train
\* total_unigrams is the length of that call's id sequence alone, and a
\* probability or sampling call changes no count.
C11_TotalsAreSums ==
    /\ [](TotalsMatch(model))
    /\ [](ret.op = "train" => model.total_unigrams = Len(ret.token_ids))
    /\ [][ret'.op # "train" =>
             /\ model'.total_unigrams = model.total_unigrams
             /\ model'.unigram_counts = model.unigram_counts
             /\ model'.bigram_counts = model.bigram_counts
             /\ model'.trigram_counts = model.trigram_counts]_vars

\* a query on trained tables that left a context of total 0 behind
C11_Witness ==
    /\ ret.op \in {"get_interpolated_prob", "generate_next_token"}
    /\ model.total_unigrams > 1
    /\ \E ctx \in DOMAIN model.total_trigrams : model.total_trigrams[ctx] = 0
    /\ \E ctx \in DOMAIN model.total_trigrams : model.total_trigrams[ctx] > 0

----------------------------------------------------------------------------
(* Properties of the tokenizer.                                            *)

Trained == Len(corpus) > 0

\* ids 0..4 are the five special tokens, and no other token has one of them
SpecialsFixed(vocab) ==
    /\ Len(vocab) >= 5
    /\ vocab[1] = [k |-> <<PAD_NAME>>, v |-> 0]
    /\ vocab[2] = [k |-> <<UNK_NAME>>, v |-> 1]
    /\ vocab[3] = [k |-> <<EOS_CHAR>>, v |-> 2]
    /\ vocab[4] = [k |-> <<EOP_CHAR>>, v |-> 3]
    /\ vocab[5] = [k |-> <<EOT_CHAR>>, v |-> 4]
    /\ \A i \in 6..Len(vocab) : vocab[i].v >= 5

\* C7 as stated: after train the Vocabulary has at most V entries and the
\* ids 0..4 map to the five special tokens.
C7_AtMostV ==
    Trained => /\ Len(tokenizer.vocab) <= tokenizer.vocab_size
               /\ SpecialsFixed(tokenizer.vocab)

\* C7, amended: after train the Vocabulary has at most max(V, 5) entries,
\* exactly the five special tokens when V < 5, and the ids 0..4 map to the
\* five special tokens.
C7_AtMostVOrFive ==
    Trained => /\ Len(tokenizer.vocab) <= Max(tokenizer.vocab_size, 5)
               /\ tokenizer.vocab_size < 5 => Len(tokenizer.vocab) = 5
               /\ SpecialsFixed(tokenizer.vocab)

\* a trained vocabulary with tokens after the specials, within V
C7_Witness ==
    /\ Trained
    /\ Len(tokenizer.vocab) > 5
    /\ Len(tokenizer.vocab) < tokenizer.vocab_size
    /\ tokenizer.merges # <<>>

AbAbAbCd == <<"a", "b", SPACE, "a", "b", SPACE, "a", "b", SPACE, "c", "d">>

\* C8: training on "ab ab ab cd" with V = 10 leaves a non-empty Merge Table
\* whose first merge is (a, b).
C8_FirstMergeAB ==
    (corpus = <<AbAbAbCd>> /\ tokenizer.vocab_size = 10) =>
        /\ tokenizer.merges # <<>>
        /\ tokenizer.merges[1] = << <<"a">>, <<"b">> >>

CharsOf(text) == {text[i] : i \in 1..Len(text)}

\* C9: a word of characters of the training corpus is given back by decode
\* of its encoding.
C9_RoundTrip ==
    (/\ ret.op = "decode"
     /\ Trained
     /\ CharsOf(ret.text) \subseteq CharsOf(corpus[1])) =>
        ret.out = ret.text

\* the base symbols of a text: its characters and the end-of-word marker
BaseSymbols(text) ==
    IF Split(text) = <<>> THEN {}
    ELSE (CharsOf(text) \ {SPACE, NEWLINE}) \cup {EOW}

\* C12: when the base symbols of a non-empty corpus do not fit (there are at
\* least V - 5 of them), train leaves, beyond the five specials, only single
\* base symbols in the Vocabulary, and at least one of them when V > 5.
C12_CharacterOnly ==
    (/\ Len(corpus) = 1
     /\ BaseSymbols(corpus[1]) # {}
     /\ Cardinality(BaseSymbols(corpus[1])) >= tokenizer.vocab_size - 5) =>
        /\ SpecialsFixed(tokenizer.vocab)
        /\ \A i \in 6..Len(tokenizer.vocab) :
               /\ Len(tokenizer.vocab[i].k) = 1
               /\ tokenizer.vocab[i].k[1] \in BaseSymbols(corpus[1])
        /\ tokenizer.vocab_size > 5 => Len(tokenizer.vocab) > 5

\* the reference procedure: one merge (a, b) over a list of symbols, joining
\* two adjacent symbols only when they are exactly a and b
RECURSIVE RefMerge(_, _, _)
RefMerge(syms, a, b) ==
    IF Len(syms) < 2 THEN syms
    ELSE IF syms[1] = a /\ syms[2] = b
    THEN <<a \o b>> \o RefMerge(SubSeq(syms, 3, Len(syms)), a, b)
    ELSE <<syms[1]>> \o RefMerge(Tail(syms), a, b)

\* every merge of the table in order, over the symbol list
RECURSIVE RefMerges(_, _)
RefMerges(syms, merges) ==
    IF merges = <<>> THEN syms
    ELSE RefMerges(RefMerge(syms, Head(merges)[1], Head(merges)[2]),
                   Tail(merges))

\* the word's characters and the end-of-word marker, merged by the table
RefEncodeWord(word, merges) ==
    RefMerges([i \in 1..(Len(word) + 1) |->
                  IF i <= Len(word) THEN <<word[i]>> ELSE <<EOW>>],
              merges)

\* C17: encode_word gives the symbols of the reference symbol-list procedure.
C17_EncodeWordIsReference ==
    ret.op = "encode_word" =>
        ret.symbols = RefEncodeWord(ret.word, tokenizer.merges)

====
